---------------------------- MODULE Spec2Model ----------------------------
(***************************************************************************)
(* The shared worker of src/src/market-worker.js: one upstream WebSocket   *)
(* shared by the ports of the attached tabs, a coalescer for upstream      *)
(* 'update' rows, a reconnect timer and a heartbeat monitor.               *)
(*                                                                         *)
(* Every action is one run of one event handler of the worker (the worker  *)
(* is single threaded: handlers run to completion and never interleave).   *)
(*                                                                         *)
(* Time is kept relative and in grains of Grain ms: pongAge[p] is          *)
(* Date.now() - portInfo.lastPong and hbDue is the time left until the     *)
(* setInterval callback runs.  The interval callback runs exactly on time  *)
(* (Tick cannot pass a due callback); setTimeout callbacks (reconnect,     *)
(* batch flush) run at some moment after they are armed: the length of     *)
(* their delay is not modelled.                                            *)
(***************************************************************************)
EXTENDS Integers, Sequences, FiniteSets, TLC

\* ------------------------------------------------------------- bounds
\* Ports handed to the worker and sockets it creates, in the runs with the most
\* attach/detach churn (SpecChurn, SpecTime) ...
MaxPorts == 3
MaxSockets == 3
\* ... and in the other specifications.
FewPorts == 2
FewSockets == 2
\* Rows in one upstream 'update' message.
MaxRows == 1

\* ---------------------------------------------------- program constants
HEARTBEAT_TIMEOUT == 30000
HEARTBEAT_INTERVAL == 10000

Grain == HEARTBEAT_INTERVAL \div 2
IntervalGrains == HEARTBEAT_INTERVAL \div Grain
AgeCap == (HEARTBEAT_TIMEOUT + HEARTBEAT_INTERVAL) \div Grain + 1

PortIds == 1..MaxPorts
SocketIds == 1..MaxSockets
Symbols == {"A", "B"}
SymbolOrder == <<"A", "B">>

\* A delta row: symbol plus the fields that changed (price 0: the delta carries
\* no price field).
Prices == {1}
Rows == [symbol : Symbols, price : {0} \cup Prices]
\* A full record of a snapshot: every field present.
FullRow(s, v) == [symbol |-> s, price |-> v]
Snapshots == { [i \in 1..Len(SymbolOrder) |-> FullRow(SymbolOrder[i], v)] : v \in Prices }
RowLists == UNION { [1..n -> Rows] : n \in 0..MaxRows }

Msg(t, d) == [type |-> t, data |-> d]

VARIABLES
  ws,                \* the socket held in ws (0: null)
  readyState,        \* readyState of every socket connect() created ("NONE": not created)
  ports,             \* keys of the ports Map; Map order is ascending id
  pongAge,           \* Date.now() - portInfo.lastPong, in grains
  nextPortId,
  reconnectTimeout,  \* the handle held in reconnectTimeout (0: null); a handle is
                     \* named after the socket whose onclose armed it
  reconnectArmed,    \* reconnect timeouts that are armed (neither fired nor cleared)
  heartbeatInterval, \* TRUE: the interval handle is held (and armed)
  hbDue,             \* grains until the interval callback runs
  lastInitialData,   \* <<>>: null
  pendingUpdates,    \* the Map as the sequence of its values, in insertion order
  batchTimer,        \* TRUE: batchTimer is non-null
  batchArmed,        \* TRUE: the flush timeout is armed
  faulty,            \* ports whose postMessage throws
  sent,              \* per port, what the last handler run delivered to it
  broadcasts,        \* the messages the last handler run passed to broadcast()
  lastAct,           \* the handler that ran last, and what it called
  offered,           \* per symbol, the last row offered since the last flush (<<>>: none)
  ponged,            \* ports that have sent a pong since they attached
  evictedAge,        \* per port that never sent a pong, pongAge when checkHeartbeats
                     \* removed it (-1: not removed)
  observed,          \* the ports whose tab is watched (fixed by the initial state)
  wsSent,            \* what the last handler run passed to ws.send(), and on which socket
  view,              \* per watched port, the rows its tab shows (<<>>: none)
  \* The render batcher of one tab (App):
  pendingUpdatesRef, \* the Map as the sequence of its values, in insertion order
  frameScheduledRef,
  frameArmed,        \* TRUE: a requestAnimationFrame callback is waiting to run
  gridRef,           \* TRUE: gridRef.current is set
  gridRows,          \* per symbol, the row last passed to applyTransaction (<<>>: none)
  lastFrame          \* what the frame callback did, if it was the last to run

vars == <<ws, readyState, ports, pongAge, nextPortId, reconnectTimeout,
          reconnectArmed, heartbeatInterval, hbDue, lastInitialData,
          pendingUpdates, batchTimer, batchArmed, faulty, sent, broadcasts,
          lastAct, offered, ponged, evictedAge, observed, wsSent, view,
          pendingUpdatesRef, frameScheduledRef, frameArmed, gridRef, gridRows,
          lastFrame>>

appVars == <<pendingUpdatesRef, frameScheduledRef, frameArmed, gridRef, gridRows,
             lastFrame>>
workerVars == <<ws, readyState, ports, pongAge, nextPortId, reconnectTimeout,
                reconnectArmed, heartbeatInterval, hbDue, lastInitialData,
                pendingUpdates, batchTimer, batchArmed, faulty, sent, broadcasts,
                lastAct, offered, ponged, evictedAge, observed, wsSent, view>>

connVars == <<ws, readyState, reconnectTimeout, reconnectArmed>>
batchVars == <<pendingUpdates, batchTimer, batchArmed, offered>>
portVars == <<ports, pongAge, nextPortId, ponged, evictedAge>>
hbVars == <<heartbeatInterval, hbDue>>

\* ------------------------------------------------------------ helpers
NoSent == [p \in PortIds |-> <<>>]
NoRows == [s \in Symbols |-> <<>>]

nSockets == Cardinality({s \in SocketIds : readyState[s] # "NONE"})
Live(s) == readyState[s] \in {"CONNECTING", "OPEN"}

\* port.postMessage throws for a faulty port: a loop of postMessage calls over
\* T (in Map order) reaches the ports before the first faulty one.
Throws(T) == T \cap faulty # {}

\* Mutant of Reached: the loop stops after the first port.
ReachedFirst(T) == {p \in T : \A q \in T : p <= q}

Reached(T) == {p \in T : \A q \in T \cap faulty : p < q}

\* What one delivered message does to a tab (App worker.port.onmessage):
\* 'initial' replaces its rows (setRowData), 'update' replaces the rows of the
\* symbols it names (queueUpdate, applyTransaction).  via: how the tab got the
\* snapshot it shows, by a broadcast or on attach.
RECURSIVE ApplyRows(_, _)
ApplyRows(rows, data) ==
  IF data = <<>> THEN rows
  ELSE ApplyRows([rows EXCEPT ![Head(data).symbol] = Head(data)], Tail(data))

NoView == [rows |-> NoRows, via |-> "none"]

ApplyMsg(v, m, how) ==
  IF m.type = "initial" THEN [rows |-> ApplyRows(NoRows, m.data), via |-> how]
  ELSE IF m.type = "update" THEN [v EXCEPT !.rows = ApplyRows(v.rows, m.data)]
  ELSE v

RECURSIVE ApplyMsgs(_, _, _)
ApplyMsgs(v, ms, how) ==
  IF ms = <<>> THEN v
  ELSE ApplyMsgs(ApplyMsg(v, Head(ms), how), Tail(ms), how)

\* The handler that ran: its name, the port or socket it ran for, whether it
\* called connect(), whether flushBatch reached its broadcast.
Act(h, id, c, f) == [h |-> h, id |-> id, connect |-> c, flush |-> f]

\* The ghost bookkeeping of one handler run: what it passed to ws.send() ...
Relayed(ups) == wsSent' = ups

\* ... and what it delivered, to whom.  (A handler of the worker does not
\* touch the render batcher of a tab.)
Posted(act, bs, snt, remaining) ==
  /\ UNCHANGED appVars
  /\ lastAct' = act
  /\ broadcasts' = bs
  /\ sent' = snt
  /\ observed' = observed
  /\ view' = [p \in PortIds |->
                IF p \in remaining \cap observed
                  THEN ApplyMsgs(view[p], snt[p],
                                 IF act.h = "onconnect" THEN "attach" ELSE "broadcast")
                  ELSE NoView]

\* The bookkeeping of the handlers that never call ws.send().
Delivered(act, bs, snt, remaining) ==
  /\ Relayed(<<>>)
  /\ Posted(act, bs, snt, remaining)

\* broadcast(message) called once, with nothing else posted by the handler.
SentBy(m) == [p \in PortIds |-> IF p \in Reached(ports) THEN <<m>> ELSE <<>>]

\* ---------------------------------------------------------------- Init
Start ==
  /\ ws = 0
  /\ readyState = [s \in SocketIds |-> "NONE"]
  /\ ports = {}
  /\ pongAge = [p \in PortIds |-> 0]
  /\ nextPortId = 1
  /\ reconnectTimeout = 0
  /\ reconnectArmed = {}
  /\ heartbeatInterval = FALSE
  /\ hbDue = 0
  /\ lastInitialData = <<>>
  /\ pendingUpdates = <<>>
  /\ batchTimer = FALSE
  /\ batchArmed = FALSE
  /\ faulty = {}
  /\ sent = NoSent
  /\ broadcasts = <<>>
  /\ lastAct = Act("init", 0, FALSE, FALSE)
  /\ offered = NoRows
  /\ ponged = {}
  /\ evictedAge = [p \in PortIds |-> -1]
  /\ wsSent = <<>>
  /\ view = [p \in PortIds |-> NoView]
  /\ pendingUpdatesRef = <<>>
  /\ frameScheduledRef = FALSE
  /\ frameArmed = FALSE
  /\ gridRef = FALSE
  /\ gridRows = NoRows
  /\ lastFrame = "none"

Init == Start /\ observed = {}
\* The same, with the tab of every port watched.
InitWatched == Start /\ observed = PortIds

\* ------------------------------------------------- connection manager
\* connect(): a new WebSocket, held in ws.
NewSocket == nSockets + 1
Connect ==
  /\ ws' = NewSocket
  /\ readyState' = [readyState EXCEPT ![NewSocket] = "CONNECTING"]

\* Mutant of CloseSocket: close() is not called.
CloseSocketNot(rs, s) == rs

\* ws.close() on socket s: the closing handshake starts unless s is closing or closed.
CloseSocket(rs, s) ==
  IF rs[s] \in {"CONNECTING", "OPEN"} THEN [rs EXCEPT ![s] = "CLOSING"] ELSE rs

\* checkCleanup() finding ports.size === 0.
CheckCleanup ==
  /\ reconnectArmed' = IF reconnectTimeout # 0
                         THEN reconnectArmed \ {reconnectTimeout}
                         ELSE reconnectArmed
  /\ reconnectTimeout' = 0
  /\ heartbeatInterval' = FALSE
  /\ hbDue' = 0
  /\ readyState' = IF ws # 0 THEN CloseSocket(readyState, ws) ELSE readyState
  /\ ws' = 0

\* removePort(port) for every port of R (each in ports), checkCleanup() included;
\* due: the time left until the interval callback when the interval stays armed.
RemovePorts(R, due) ==
  /\ ports' = ports \ R
  /\ faulty' = faulty \ R
  /\ ponged' = ponged \ R
  /\ pongAge' = [p \in PortIds |-> IF p \in R THEN 0 ELSE pongAge[p]]
  /\ IF R # {} /\ ports \ R = {}
       THEN CheckCleanup
       ELSE UNCHANGED <<connVars, heartbeatInterval>> /\ hbDue' = due

\* startHeartbeatMonitoring()
StartHeartbeatMonitoring ==
  IF heartbeatInterval
    THEN UNCHANGED hbVars
    ELSE heartbeatInterval' = TRUE /\ hbDue' = IntervalGrains

\* Mutant of ShouldConnect: every attach connects.
ShouldConnectAlways(w) == w = w

\* The test of self.onconnect: no WebSocket connection exists.
ShouldConnect(w) == w = 0

\* Mutant of StatusOf: a held socket counts as connected.
StatusOfHeld(w) == IF w # 0 THEN "connected" ELSE "disconnected"

\* The status a new port is told: ws && ws.readyState === WebSocket.OPEN.
StatusOf(w) ==
  IF w # 0 /\ readyState[w] = "OPEN" THEN "connected" ELSE "disconnected"

\* Mutant of AttachMsgs: the cached snapshot is not sent.
AttachMsgsStatusOnly == <<Msg(StatusOf(ws), <<>>)>>

\* What self.onconnect posts to the new port when a socket is held.
AttachMsgs ==
  (IF lastInitialData # <<>> THEN <<lastInitialData>> ELSE <<>>)
    \o <<Msg(StatusOf(ws), <<>>)>>

\* self.onconnect
OnConnect ==
  /\ LET port == nextPortId IN
       /\ nextPortId' = nextPortId + 1
       /\ ports' = ports \cup {port}
       /\ pongAge' = [pongAge EXCEPT ![port] = 0]
       /\ IF ShouldConnect(ws)
            THEN /\ Connect
                 /\ StartHeartbeatMonitoring
                 /\ UNCHANGED <<reconnectTimeout, reconnectArmed>>
                 /\ Delivered(Act("onconnect", port, TRUE, FALSE), <<>>, NoSent,
                              ports \cup {port})
            ELSE /\ UNCHANGED <<connVars, hbVars>>
                 /\ Delivered(Act("onconnect", port, FALSE, FALSE), <<>>,
                              [NoSent EXCEPT ![port] = AttachMsgs], ports \cup {port})
  /\ UNCHANGED <<lastInitialData, batchVars, faulty, ponged, evictedAge>>

\* ws.onopen of socket s
OnOpen(s) ==
  /\ readyState[s] = "CONNECTING"
  /\ readyState' = [readyState EXCEPT ![s] = "OPEN"]
  /\ Delivered(Act("onopen", s, FALSE, FALSE), <<Msg("connected", <<>>)>>,
               SentBy(Msg("connected", <<>>)), ports)
  /\ UNCHANGED <<ws, reconnectTimeout, reconnectArmed, portVars, hbVars,
                 lastInitialData, batchVars, faulty>>

\* --------------------------------------------------------- coalescer
\* Mutant of MapSet: the new row is merged into the pending one, field by field.
MapSetMerged(pending, row) ==
  IF \E i \in 1..Len(pending) : pending[i].symbol = row.symbol
    THEN [i \in 1..Len(pending) |->
            IF pending[i].symbol = row.symbol /\ row.price # 0 THEN row ELSE pending[i]]
    ELSE Append(pending, row)

\* pendingUpdates.set(row.symbol, row): a Map keeps a key's first position.
MapSet(pending, row) ==
  IF \E i \in 1..Len(pending) : pending[i].symbol = row.symbol
    THEN [i \in 1..Len(pending) |->
            IF pending[i].symbol = row.symbol THEN row ELSE pending[i]]
    ELSE Append(pending, row)

\* message.data.forEach((row) => pendingUpdates.set(row.symbol, row))
RECURSIVE SetAll(_, _)
SetAll(pending, rows) ==
  IF rows = <<>> THEN pending
  ELSE SetAll(MapSet(pending, Head(rows)), Tail(rows))

\* Ghost: the last row of rows for symbol s, or what was offered before.
LastOffered(before, rows, s) ==
  LET at == {i \in 1..Len(rows) : rows[i].symbol = s} IN
    IF at = {} THEN before
    ELSE rows[CHOOSE i \in at : \A j \in at : j <= i]

\* ws.onmessage of socket s, message.type === "initial"
OnMessageInitial(s, snapshot) ==
  /\ readyState[s] = "OPEN"
  /\ lastInitialData' = Msg("initial", snapshot)
  /\ Delivered(Act("oninitial", s, FALSE, FALSE), <<Msg("initial", snapshot)>>,
               SentBy(Msg("initial", snapshot)), ports)
  /\ UNCHANGED <<connVars, portVars, hbVars, batchVars, faulty>>

\* Mutant of OnMessageUpdate: the rows are broadcast by the handler itself.
OnMessageUpdateDirect(s, rows) ==
  /\ readyState[s] = "OPEN"
  /\ Delivered(Act("onupdate", s, FALSE, FALSE), <<Msg("update", rows)>>,
               SentBy(Msg("update", rows)), ports)
  /\ UNCHANGED <<connVars, portVars, hbVars, lastInitialData, batchVars, faulty>>

\* ws.onmessage of socket s, message.type === "update"; scheduleBatch() included
OnMessageUpdate(s, rows) ==
  /\ readyState[s] = "OPEN"
  /\ pendingUpdates' = SetAll(pendingUpdates, rows)
  /\ offered' = [y \in Symbols |-> LastOffered(offered[y], rows, y)]
  /\ batchTimer' = TRUE
  /\ batchArmed' = IF batchTimer THEN batchArmed ELSE TRUE
  /\ Delivered(Act("onupdate", s, FALSE, FALSE), <<>>, NoSent, ports)
  /\ UNCHANGED <<connVars, portVars, hbVars, lastInitialData, faulty>>

\* ws.onmessage of socket s, any other message.type
OnMessageOther(s) ==
  /\ readyState[s] = "OPEN"
  /\ Delivered(Act("onother", s, FALSE, FALSE), <<Msg("other", <<>>)>>,
               SentBy(Msg("other", <<>>)), ports)
  /\ UNCHANGED <<connVars, portVars, hbVars, lastInitialData, batchVars, faulty>>

\* Mutant of Flushes: flushBatch always returns at its first line.
FlushesNever(pending) == pending # pending

\* The upstream messages ws.onmessage cannot process: a payload JSON.parse
\* rejects, an 'update' message whose data is not a list of rows.
Malformed == {"unparseable", "norows"}

\* Mutant of OnMessageMalformed: scheduleBatch() is reached all the same.
OnMessageMalformedSchedules(s, kind) ==
  /\ readyState[s] = "OPEN"
  /\ batchTimer' = TRUE
  /\ batchArmed' = IF batchTimer THEN batchArmed ELSE TRUE
  /\ Delivered(Act(kind, s, FALSE, FALSE), <<>>, NoSent, ports)
  /\ UNCHANGED <<connVars, portVars, hbVars, lastInitialData, pendingUpdates,
                 offered, faulty>>

\* ws.onmessage of socket s for such a message: JSON.parse(event.data), or
\* message.data.forEach, throws, and the rest of the handler does not run.
OnMessageMalformed(s, kind) ==
  /\ readyState[s] = "OPEN"
  /\ Delivered(Act(kind, s, FALSE, FALSE), <<>>, NoSent, ports)
  /\ UNCHANGED <<connVars, portVars, hbVars, lastInitialData, batchVars, faulty>>

\* flushBatch() reaches its broadcast: something is pending.
Flushes(pending) == pending # <<>>
\* Array.from(pendingUpdates.values())
BatchedData(pending) == pending

\* The flush timeout fires: flushBatch()
FlushTimer ==
  /\ batchArmed
  /\ batchArmed' = FALSE
  /\ LET upd == Msg("update", BatchedData(pendingUpdates)) IN
       IF ~Flushes(pendingUpdates)
         THEN /\ UNCHANGED <<pendingUpdates, batchTimer, offered>>
              /\ Delivered(Act("flushBatch", 0, FALSE, FALSE), <<>>, NoSent, ports)
         ELSE /\ Delivered(Act("flushBatch", 0, FALSE, TRUE), <<upd>>, SentBy(upd), ports)
              /\ IF Throws(ports)
                   THEN UNCHANGED <<pendingUpdates, batchTimer, offered>>
                   ELSE /\ pendingUpdates' = <<>>
                        /\ batchTimer' = FALSE
                        /\ offered' = NoRows
  /\ UNCHANGED <<connVars, portVars, hbVars, lastInitialData, faulty>>

\* Mutant of ShouldReconnect: a reconnect is never scheduled.
ShouldReconnectNever(ps) == ps # ps

\* The test of ws.onclose: there are active ports.
ShouldReconnect(ps) == ps # {}

\* ws.onclose of socket s (the close event of a socket that was connecting,
\* open, or closed by ws.close())
OnClose(s) ==
  /\ readyState[s] \in {"CONNECTING", "OPEN", "CLOSING"}
  /\ readyState' = [readyState EXCEPT ![s] = "CLOSED"]
  /\ LET disc == Msg("disconnected", <<>>)
         upd == Msg("update", BatchedData(pendingUpdates))
         flush == batchTimer /\ Flushes(pendingUpdates)
         msgs == IF flush THEN <<disc, upd>> ELSE <<disc>>
     IN
       IF Throws(ports)
         THEN /\ Delivered(Act("onclose", s, FALSE, FALSE), <<disc>>, SentBy(disc), ports)
              /\ UNCHANGED <<ws, reconnectTimeout, reconnectArmed, batchVars>>
         ELSE /\ Delivered(Act("onclose", s, FALSE, flush), msgs,
                           [p \in PortIds |-> IF p \in Reached(ports) THEN msgs ELSE <<>>],
                           ports)
              /\ batchArmed' = FALSE
              /\ pendingUpdates' = IF flush THEN <<>> ELSE pendingUpdates
              /\ batchTimer' = IF flush THEN FALSE ELSE batchTimer
              /\ offered' = IF flush THEN NoRows ELSE offered
              /\ IF ShouldReconnect(ports)
                   THEN /\ reconnectTimeout' = s
                        /\ reconnectArmed' = reconnectArmed \cup {s}
                        /\ ws' = ws
                   ELSE /\ ws' = 0
                        /\ UNCHANGED <<reconnectTimeout, reconnectArmed>>
  /\ UNCHANGED <<portVars, hbVars, lastInitialData, faulty>>

\* The reconnect timeout armed by the onclose of socket t fires: connect()
ReconnectTimer(t) ==
  /\ t \in reconnectArmed
  /\ reconnectArmed' = reconnectArmed \ {t}
  /\ Connect
  /\ Delivered(Act("reconnect", t, TRUE, FALSE), <<>>, NoSent, ports)
  /\ UNCHANGED <<reconnectTimeout, portVars, hbVars, lastInitialData, batchVars, faulty>>

\* ------------------------------------------------ subscriber messages
\* The ports handed to self.onconnect so far.
Handed == 1..(nextPortId - 1)

\* port.onmessage of port p, event.data.type === "pong"
OnPong(p) ==
  /\ p \in Handed
  /\ IF p \in ports
       THEN pongAge' = [pongAge EXCEPT ![p] = 0] /\ ponged' = ponged \cup {p}
       ELSE UNCHANGED <<pongAge, ponged>>
  /\ Delivered(Act("pong", p, FALSE, FALSE), <<>>, NoSent, ports)
  /\ UNCHANGED <<ports, nextPortId, evictedAge, connVars, hbVars, lastInitialData,
                 batchVars, faulty>>

\* port.onmessage of port p, event.data.type === "disconnect"
OnDisconnect(p) ==
  /\ p \in Handed
  /\ IF p \in ports
       THEN RemovePorts({p}, hbDue)
       ELSE UNCHANGED <<ports, faulty, ponged, pongAge, connVars, hbVars>>
  /\ Delivered(Act("disconnect", p, FALSE, FALSE), <<>>, NoSent, ports \ {p})
  /\ UNCHANGED <<nextPortId, evictedAge, lastInitialData, batchVars>>

\* The values a tab asks for: an update frequency in ms, a batch size range.
Frequencies == {50, 100}
BatchSizes == {<<1, 5>>, <<10, 30>>}

\* Mutant of CanSend: the command is sent on any socket held in ws.
CanSendAny(w) == w # 0

\* The test before ws.send: ws && ws.readyState === WebSocket.OPEN
CanSend(w) == w # 0 /\ readyState[w] = "OPEN"

\* Mutant of RelayCommand: the sending port is told as well.
RelayCommandEcho(p, cmd, note) ==
  /\ p \in Handed
  /\ Relayed(IF p \in ports /\ CanSend(ws) THEN <<[socket |-> ws, msg |-> cmd]>> ELSE <<>>)
  /\ Posted(Act(cmd.type, p, FALSE, FALSE), <<>>,
            [q \in PortIds |-> IF p \in ports /\ q \in ports THEN <<note>> ELSE <<>>],
            ports)
  /\ UNCHANGED <<connVars, portVars, hbVars, lastInitialData, batchVars, faulty>>

\* The setFrequency / setBatchSize branches of port.onmessage of port p: cmd is
\* what is passed to ws.send, note what is posted to every other port.
RelayCommand(p, cmd, note) ==
  /\ p \in Handed
  /\ IF p \in ports
       THEN /\ Relayed(IF CanSend(ws) THEN <<[socket |-> ws, msg |-> cmd]>> ELSE <<>>)
            /\ Posted(Act(cmd.type, p, FALSE, FALSE), <<>>,
                      [q \in PortIds |->
                         IF q \in Reached(ports \ {p}) THEN <<note>> ELSE <<>>],
                      ports)
       ELSE Delivered(Act(cmd.type, p, FALSE, FALSE), <<>>, NoSent, ports)
  /\ UNCHANGED <<connVars, portVars, hbVars, lastInitialData, batchVars, faulty>>

\* Mutant of OnSetFrequency: the handler does not check that the port is in ports.
OnSetFrequencyUnchecked(p, frequency) ==
  /\ p \in Handed
  /\ Relayed(IF CanSend(ws)
               THEN <<[socket |-> ws, msg |-> Msg("setFrequency", <<frequency>>)]>>
               ELSE <<>>)
  /\ Posted(Act("setFrequency", p, FALSE, FALSE), <<>>,
            [q \in PortIds |->
               IF q \in ports \ {p} THEN <<Msg("frequencyChanged", <<frequency>>)>>
               ELSE <<>>],
            ports)
  /\ UNCHANGED <<connVars, portVars, hbVars, lastInitialData, batchVars, faulty>>

\* port.onmessage of port p, event.data.type === "setFrequency"
OnSetFrequency(p, frequency) ==
  RelayCommand(p, Msg("setFrequency", <<frequency>>),
               Msg("frequencyChanged", <<frequency>>))

\* port.onmessage of port p, event.data.type === "setBatchSize"
OnSetBatchSize(p, min, max) ==
  RelayCommand(p, Msg("setBatchSize", <<min, max>>),
               Msg("batchSizeChanged", <<min, max>>))

\* ---------------------------------------------------- liveness monitor
\* Mutant of IsStale: a port is stale one interval after its last pong.
IsStaleAtInterval(age) == age * Grain >= HEARTBEAT_INTERVAL

\* The test of checkHeartbeats: now - portInfo.lastPong > HEARTBEAT_TIMEOUT
IsStale(age) == age * Grain > HEARTBEAT_TIMEOUT

\* The setInterval callback: sendHeartbeats(); checkHeartbeats()
Heartbeat ==
  /\ heartbeatInterval
  /\ hbDue = 0
  /\ LET pinged == ports \ faulty
         stale == {p \in pinged : IsStale(pongAge[p])}
         ping == Msg("ping", <<>>)
     IN
       /\ RemovePorts((ports \cap faulty) \cup stale, IntervalGrains)
       /\ evictedAge' = [p \in PortIds |->
                           IF p \in stale \ ponged THEN pongAge[p] ELSE evictedAge[p]]
       /\ Delivered(Act("heartbeat", 0, FALSE, FALSE), <<>>,
                    [p \in PortIds |-> IF p \in pinged THEN <<ping>> ELSE <<>>],
                    pinged \ stale)
  /\ UNCHANGED <<nextPortId, lastInitialData, batchVars>>

\* Grain ms pass; the interval callback is never late.
Tick ==
  /\ ports # {}
  /\ ~(heartbeatInterval /\ hbDue = 0)
  /\ pongAge' = [p \in PortIds |->
                   IF p \in ports /\ pongAge[p] < AgeCap THEN pongAge[p] + 1
                   ELSE pongAge[p]]
  /\ hbDue' = IF heartbeatInterval THEN hbDue - 1 ELSE hbDue
  /\ Delivered(Act("tick", 0, FALSE, FALSE), <<>>, NoSent, ports)
  /\ UNCHANGED <<ports, nextPortId, ponged, evictedAge, heartbeatInterval, connVars,
                 lastInitialData, batchVars, faulty>>

\* The channel of port p breaks: port.postMessage throws from now on.
PortFails(p) ==
  /\ p \in ports \ faulty
  /\ faulty' = faulty \cup {p}
  /\ Delivered(Act("fail", p, FALSE, FALSE), <<>>, NoSent, ports)
  /\ UNCHANGED <<portVars, connVars, hbVars, lastInitialData, batchVars>>

\* ------------------------------------------ message handler of a tab
\* What worker.port.onmessage of the App posts back to the worker for a
\* message m: its switch has the cases 'connected', 'disconnected', 'initial'
\* and 'update', and none of them (nor anything else in the App) calls
\* worker.port.postMessage; a 'ping' matches no case.
AppReplies(m) == <<>>

\* The tab of port p handles the messages the last handler run posted to it;
\* a 'pong' among its replies reaches port.onmessage of the worker.
TabHandles(p) ==
  /\ p \in ports
  /\ sent[p] # <<>>
  /\ IF \E i \in 1..Len(sent[p]) :
            \E j \in 1..Len(AppReplies(sent[p][i])) :
               AppReplies(sent[p][i])[j].type = "pong"
       THEN pongAge' = [pongAge EXCEPT ![p] = 0] /\ ponged' = ponged \cup {p}
       ELSE UNCHANGED <<pongAge, ponged>>
  /\ Delivered(Act("app", p, FALSE, FALSE), <<>>, NoSent, ports)
  /\ UNCHANGED <<ports, nextPortId, evictedAge, connVars, hbVars, lastInitialData,
                 batchVars, faulty>>

\* ------------------------------------------- render batcher of a tab
\* scheduleFrame(): the values of frameScheduledRef and frameArmed after it.
ScheduleFrame(scheduled, armed) ==
  IF scheduled THEN <<scheduled, armed>> ELSE <<TRUE, TRUE>>

\* queueUpdate(updates), called for an 'update' event
QueueUpdate(updates) ==
  /\ pendingUpdatesRef' = SetAll(pendingUpdatesRef, updates)
  /\ frameScheduledRef' = ScheduleFrame(frameScheduledRef, frameArmed)[1]
  /\ frameArmed' = ScheduleFrame(frameScheduledRef, frameArmed)[2]
  /\ lastFrame' = "none"
  /\ UNCHANGED <<gridRef, gridRows, workerVars>>

\* Mutant of Reschedules: the callback never schedules another frame.
ReschedulesNever(pending) == pending # pending

\* The last test of the frame callback: pendingUpdatesRef.current.size > 0
Reschedules(pending) == pending # <<>>

\* The requestAnimationFrame callback of scheduleFrame
FrameCallback ==
  /\ frameArmed
  /\ LET applies == pendingUpdatesRef # <<>> /\ gridRef
         left == IF applies THEN <<>> ELSE pendingUpdatesRef
         again == IF Reschedules(left) THEN ScheduleFrame(FALSE, FALSE)
                  ELSE <<FALSE, FALSE>>
     IN /\ gridRows' = IF applies THEN ApplyRows(gridRows, pendingUpdatesRef)
                       ELSE gridRows
        /\ pendingUpdatesRef' = left
        /\ frameScheduledRef' = again[1]
        /\ frameArmed' = again[2]
        /\ lastFrame' = IF applies THEN "applied"
                        ELSE IF pendingUpdatesRef # <<>> THEN "nogrid" ELSE "empty"
  /\ UNCHANGED <<gridRef, workerVars>>

\* The grid is mounted: gridRef.current is set.
GridMounted ==
  /\ ~gridRef
  /\ gridRef' = TRUE
  /\ lastFrame' = "none"
  /\ UNCHANGED <<pendingUpdatesRef, frameScheduledRef, frameArmed, gridRows, workerVars>>

\* ------------------------------------------------------ specifications
\* The bounds of a run: np ports are handed over, ns sockets are created.
MayAttach(np, ns) == nextPortId <= np /\ (ShouldConnect(ws) => nSockets < ns)
MayConnect(ns) == nSockets < ns

\* Attach, detach and the upstream connection's events.
ConnStep(np, ns) ==
  \/ MayAttach(np, ns) /\ OnConnect
  \/ \E s \in SocketIds : OnOpen(s)
  \/ \E s \in SocketIds : OnClose(s)
  \/ \E t \in SocketIds : MayConnect(ns) /\ ReconnectTimer(t)
  \/ \E p \in PortIds : OnPong(p)
  \/ \E p \in PortIds : OnDisconnect(p)

\* Upstream messages and the flush timeout.
DataStep ==
  \/ \E s \in SocketIds, snapshot \in Snapshots : OnMessageInitial(s, snapshot)
  \/ \E s \in SocketIds, rows \in RowLists : OnMessageUpdate(s, rows)
  \/ \E s \in SocketIds : OnMessageOther(s)
  \/ FlushTimer

\* The runtime parameter changes a tab asks for.
CommandStep ==
  \/ \E p \in PortIds, f \in Frequencies : OnSetFrequency(p, f)
  \/ \E p \in PortIds, b \in BatchSizes : OnSetBatchSize(p, b[1], b[2])

\* Time and the interval callback.
TimeStep ==
  \/ Heartbeat
  \/ Tick

\* The worker and its upstream data; port channels work (postMessage never
\* throws) and no time passes.
Next == ConnStep(FewPorts, FewSockets) \/ DataStep
Spec == Init /\ [][Next]_vars

\* The same, where an armed reconnect timeout that could run does run.
SpecFair ==
  Spec /\ \A t \in SocketIds : WF_vars(MayConnect(FewSockets) /\ ReconnectTimer(t))

\* The worker and the commands of its tabs, without upstream data.
NextCommand == ConnStep(FewPorts, FewSockets) \/ CommandStep
SpecCommand == Init /\ [][NextCommand]_vars

\* The worker and its upstream data, malformed messages included.
NextMalformed ==
  \/ Next
  \/ \E s \in SocketIds, kind \in Malformed : OnMessageMalformed(s, kind)
SpecMalformed == Init /\ [][NextMalformed]_vars
\* The same, where an armed flush timeout does run.
SpecMalformedFair == SpecMalformed /\ WF_vars(FlushTimer)

\* The render batcher of one tab, fed 'update' events; an armed frame callback
\* does run and the grid does get mounted.
NextFrame ==
  \/ \E updates \in RowLists : QueueUpdate(updates)
  \/ FrameCallback
  \/ GridMounted
SpecFrame ==
  Init /\ [][NextFrame]_vars /\ WF_vars(FrameCallback) /\ WF_vars(GridMounted)

\* The worker with tabs that run the App and stay open: what a tab sends to
\* the worker is what the App's message handler sends.
NextApp ==
  \/ MayAttach(FewPorts, FewSockets) /\ OnConnect
  \/ \E s \in SocketIds : OnOpen(s)
  \/ \E s \in SocketIds : OnClose(s)
  \/ \E t \in SocketIds : MayConnect(FewSockets) /\ ReconnectTimer(t)
  \/ \E p \in PortIds : TabHandles(p)
  \/ TimeStep
SpecApp == Init /\ [][NextApp]_vars

\* The same with the tabs watched.
SpecWatched == InitWatched /\ [][Next]_vars

\* The same with more attach/detach churn and more sockets.
NextChurn == ConnStep(MaxPorts, MaxSockets) \/ DataStep
SpecChurn == Init /\ [][NextChurn]_vars

\* The worker and its liveness monitor as time passes, without upstream data.
NextTime == ConnStep(FewPorts, FewSockets) \/ TimeStep
SpecTime == Init /\ [][NextTime]_vars

\* The same with more attach/detach churn and more sockets.
NextTimeChurn == ConnStep(MaxPorts, MaxSockets) \/ TimeStep
SpecTimeChurn == Init /\ [][NextTimeChurn]_vars

\* The worker when the channel of an attached port may break.
NextFault ==
  \/ ConnStep(FewPorts, FewSockets)
  \/ \E s \in SocketIds, snapshot \in Snapshots : OnMessageInitial(s, snapshot)
  \/ TimeStep
  \/ \E p \in PortIds : PortFails(p)
SpecFault == Init /\ [][NextFault]_vars

\* ---------------------------------------------------------------- claims
LiveSockets == {s \in SocketIds : Live(s)}

\* C1: in every reachable state at most one socket created by connect() is
\* connecting or open.
C1_SingleUpstream == Cardinality(LiveSockets) <= 1

\* C2: once the last subscriber is removed no reconnect timeout stays armed and
\* no socket stays connecting or open, and no handler run that ends without
\* subscribers calls connect().
C2_IdleShutdown ==
  [][ports' = {} => /\ reconnectArmed' = {}
                    /\ LiveSockets' = {}
                    /\ nSockets' = nSockets]_vars

IsUpdate(m) == m.type = "update"
Updates(ms) == SelectSeq(ms, IsUpdate)
RowSet(data) == {data[i] : i \in 1..Len(data)}
OfferedRows == {offered[y] : y \in {z \in Symbols : offered[z] # <<>>}}

\* C3: the handler run that drains pendingUpdates (flushBatch) broadcasts
\* exactly one 'update' event; it holds one entry per symbol offered since the
\* previous flush, and the entry is the last row offered for the symbol; and an
\* 'update' event is broadcast by no other handler run.
C3_Coalesce ==
  [][/\ (pendingUpdates # <<>> /\ pendingUpdates' = <<>>) =>
          /\ Len(Updates(broadcasts')) = 1
          /\ RowSet(Updates(broadcasts')[1].data) = OfferedRows
          /\ Len(Updates(broadcasts')[1].data) = Cardinality(OfferedRows)
     /\ Updates(broadcasts') # <<>> =>
          /\ pendingUpdates # <<>>
          /\ pendingUpdates' = <<>>
          /\ ~batchTimer' /\ ~batchArmed']_vars

\* C3's case: the flush timeout has just broadcast a batch with a row for
\* every symbol.
C3_Witness ==
  /\ lastAct.h = "flushBatch"
  /\ Updates(broadcasts) # <<>>
  /\ Len(Updates(broadcasts)[1].data) = Cardinality(Symbols)

\* C4 as stated: whenever a port attaches while a snapshot is cached, the
\* handler posts that snapshot to the port first and does not call connect().
C4_AttachGetsSnapshot ==
  [][(nextPortId' = nextPortId + 1 /\ lastInitialData # <<>>) =>
        /\ nSockets' = nSockets
        /\ sent'[nextPortId] # <<>>
        /\ Head(sent'[nextPortId]) = lastInitialData]_vars

\* C4 amended: whenever a port attaches while a snapshot is cached and a
\* socket is held in ws, the handler posts that snapshot to the port first and
\* does not call connect().
C4_AttachWithSocket ==
  [][(nextPortId' = nextPortId + 1 /\ lastInitialData # <<>> /\ ws # 0) =>
        /\ nSockets' = nSockets
        /\ sent'[nextPortId] # <<>>
        /\ Head(sent'[nextPortId]) = lastInitialData]_vars

\* C4's case: a port has just attached with a snapshot cached and a socket held.
C4_Witness ==
  /\ lastAct.h = "onconnect"
  /\ ~lastAct.connect
  /\ lastInitialData # <<>>
  /\ Head(sent[lastAct.id]) = lastInitialData

\* C5: when a broadcast runs while the channel of an attached port is broken,
\* every attached port with a working channel still receives what was
\* broadcast, and the broken port is no longer in ports after the call.
C5_FailureIsolated ==
  (broadcasts # <<>> /\ ports \ faulty # {}) =>
     /\ \A b \in ports \ faulty : sent[b] = broadcasts
     /\ ports \cap faulty = {}

\* C6: a port that never sends a pong is removed by the monitor later than
\* HEARTBEAT_TIMEOUT and no later than HEARTBEAT_TIMEOUT + HEARTBEAT_INTERVAL
\* after it attached.
C6_SilentEviction ==
  /\ \A p \in ports \ ponged :
        pongAge[p] * Grain <= HEARTBEAT_TIMEOUT + HEARTBEAT_INTERVAL
  /\ \A p \in PortIds :
        evictedAge[p] # -1 =>
          /\ evictedAge[p] * Grain > HEARTBEAT_TIMEOUT
          /\ evictedAge[p] * Grain <= HEARTBEAT_TIMEOUT + HEARTBEAT_INTERVAL

\* C7: N attaches with no detach and no upstream drop call connect() once.
C7_ConnectOnce ==
  (/\ nextPortId > 1
   /\ ports = Handed
   /\ \A s \in SocketIds : readyState[s] \notin {"CLOSING", "CLOSED"})
    => nSockets = 1

\* C7's case: a second port has attached, nothing was removed or dropped.
C7_Witness ==
  /\ Cardinality(ports) >= 2
  /\ ports = Handed
  /\ \A s \in SocketIds : readyState[s] \notin {"CLOSING", "CLOSED"}
  /\ lastAct.h = "onconnect"

\* C8: once nothing is pending, the rows of a tab that got the cached
\* snapshot on attach equal the rows of a tab that got it when it arrived.
C8_LateJoinerView ==
  pendingUpdates = <<>> =>
    \A p \in ports, q \in ports :
      (view[p].via = "broadcast" /\ view[q].via = "attach") =>
         view[q].rows = view[p].rows

IsUpstream(m) == m.type \in {"initial", "update", "connected", "disconnected"}
Upstream(ms) == SelectSeq(ms, IsUpstream)
Attaching == IF lastAct.h = "onconnect" THEN {lastAct.id} ELSE {}

\* C9: every handler run delivers the upstream events it broadcast, each once
\* and in the same order, to all the attached ports (the port that this very
\* run attached is posted the worker's cached snapshot and status instead).
C9_SameBroadcasts ==
  \A p \in ports \ Attaching : Upstream(sent[p]) = Upstream(broadcasts)

\* C9's case: two attached ports have just been delivered a batched update.
C9_Witness ==
  /\ Cardinality(ports) >= 2
  /\ Updates(broadcasts) # <<>>
  /\ \A p \in ports : sent[p] = broadcasts

\* C10: the close event of socket s broadcasts 'disconnected' first; with a
\* port attached it arms a reconnect timeout (held in reconnectTimeout), with
\* none it arms nothing and sets ws to null; an armed timeout goes only by
\* calling connect() or by the cleanup that empties ports, and it does go
\* (unless the model's bound on sockets is reached).
C10_OnClose(s) ==
  (readyState[s] # "CLOSED" /\ readyState'[s] = "CLOSED") =>
    /\ broadcasts' # <<>> /\ Head(broadcasts').type = "disconnected"
    /\ \A p \in ports : sent'[p] # <<>> /\ Head(sent'[p]).type = "disconnected"
    /\ IF ports # {}
         THEN s \in reconnectArmed' /\ reconnectTimeout' = s /\ ws' = ws
         ELSE reconnectArmed' = reconnectArmed /\ ws' = 0

C10_TimerEnds(s) ==
  (s \in reconnectArmed /\ s \notin reconnectArmed') =>
    \/ nSockets' = nSockets + 1 /\ readyState'[ws'] = "CONNECTING"
    \/ ports # {} /\ ports' = {}

C10_Reconnect ==
  /\ [][\A s \in SocketIds : C10_OnClose(s) /\ C10_TimerEnds(s)]_vars
  /\ \A s \in SocketIds :
       (s \in reconnectArmed) ~> (s \notin reconnectArmed \/ nSockets >= FewSockets)

\* C10's case: a socket has just closed with a port attached, its reconnect
\* timeout is armed and connect() can still be called.
C10_Witness ==
  /\ lastAct.h = "onclose"
  /\ ports # {}
  /\ lastAct.id \in reconnectArmed
  /\ nSockets < FewSockets

\* C11: whenever pendingUpdates is non-empty the flush timeout is armed (so
\* that, armed timeouts firing, every offered row is broadcast).
C11_FlushScheduled == pendingUpdates # <<>> => batchArmed

\* C12: when a handler run removes the last port, at its end reconnectTimeout
\* is null and the timeout it held is not armed, heartbeatInterval is null
\* (its interval cleared), close() was called on the socket held in ws, and ws
\* is null.
C12_LastDetach ==
  [][(ports # {} /\ ports' = {}) =>
        /\ reconnectTimeout' = 0
        /\ reconnectTimeout \notin reconnectArmed'
        /\ ~heartbeatInterval'
        /\ ws # 0
        /\ readyState'[ws] \in {"CLOSING", "CLOSED"}
        /\ ws' = 0]_vars

\* C12's case: the interval callback has just evicted the last port, while a
\* socket was connecting or open.
C12_Witness ==
  /\ lastAct.h = "heartbeat"
  /\ ports = {}
  /\ ~heartbeatInterval
  /\ \E s \in SocketIds : readyState[s] = "CLOSING"

\* C13: when a handler run removes the last port, no flush timeout is armed at
\* its end.
C13_FlushTimerCancelled ==
  [][(ports # {} /\ ports' = {}) => ~batchArmed']_vars

\* C14: whenever a port is attached the heartbeat interval is held and armed.
C14_MonitorRunning == ports # {} => heartbeatInterval

\* C15: when a socket's close event runs while the flush timeout is armed, at
\* the handler's end pendingUpdates is empty, no flush timeout is armed, and
\* the rows that were pending have been broadcast, in one 'update' event, to
\* every attached port.
C15_CloseFlushes ==
  [][\A s \in SocketIds :
       (readyState[s] # "CLOSED" /\ readyState'[s] = "CLOSED" /\ batchArmed) =>
          /\ pendingUpdates' = <<>>
          /\ ~batchArmed'
          /\ IF pendingUpdates = <<>>
               THEN Updates(broadcasts') = <<>>
               ELSE /\ Len(Updates(broadcasts')) = 1
                    /\ Updates(broadcasts')[1].data = pendingUpdates
                    /\ \A p \in ports : Updates(sent'[p]) = Updates(broadcasts')]_vars

\* C15's case: a close event has just flushed pending rows to two ports.
C15_Witness ==
  /\ lastAct.h = "onclose"
  /\ lastAct.flush
  /\ Cardinality(ports) >= 2
  /\ \A p \in ports : Updates(sent[p]) # <<>>
  /\ pendingUpdates = <<>>

\* C16: the run of ws.onmessage for an 'update' message posts nothing, leaves
\* lastInitialData alone and leaves batchTimer non-null; an 'update' event is
\* posted only by a run in which flushBatch broadcast; the run for an 'initial'
\* message caches the message and posts that very message to every port,
\* leaving pendingUpdates alone; the run for any other message posts that
\* message to every port and leaves pendingUpdates and lastInitialData alone.
C16_HandlerRoles ==
  [][/\ lastAct'.h = "onupdate" =>
          /\ broadcasts' = <<>> /\ sent' = NoSent
          /\ lastInitialData' = lastInitialData
          /\ batchTimer'
          /\ batchArmed' = (batchArmed \/ ~batchTimer)
     /\ (\E p \in PortIds : Updates(sent'[p]) # <<>>) =>
          /\ lastAct'.flush
          /\ lastAct'.h \in {"flushBatch", "onclose"}
     /\ lastAct'.h = "oninitial" =>
          /\ lastInitialData' # <<>> /\ lastInitialData'.type = "initial"
          /\ broadcasts' = <<lastInitialData'>>
          /\ \A p \in ports : sent'[p] = broadcasts'
          /\ UNCHANGED <<pendingUpdates, batchTimer, batchArmed>>
     /\ lastAct'.h = "onother" =>
          /\ broadcasts' = <<Msg("other", <<>>)>>
          /\ \A p \in ports : sent'[p] = broadcasts'
          /\ UNCHANGED <<pendingUpdates, batchTimer, batchArmed, lastInitialData>>]_vars

\* C16's case: an 'update' message has just been handled with a port attached:
\* its row is pending, the flush timeout is armed, nothing was posted.
C16_Witness ==
  /\ lastAct.h = "onupdate"
  /\ ports # {}
  /\ pendingUpdates # <<>>
  /\ batchArmed
  /\ lastInitialData # <<>>

IsCommand(h) == h \in {"setFrequency", "setBatchSize"}

\* C17: ws.send() is called only by the run of a setFrequency / setBatchSize
\* message of an attached port; that run calls it once, on the socket held in
\* ws and with that command, if the socket is open when the run starts, and
\* not at all otherwise; no other run (open, reconnect, attach, ...) sends.
C17_RelayOrDrop ==
  [][/\ wsSent' # <<>> =>
          /\ IsCommand(lastAct'.h)
          /\ lastAct'.id \in ports
          /\ ws # 0 /\ readyState[ws] = "OPEN"
          /\ Len(wsSent') = 1
          /\ wsSent'[1].socket = ws
          /\ wsSent'[1].msg.type = lastAct'.h
          /\ \A q \in ports \ {lastAct'.id} :
                sent'[q] # <<>> /\ sent'[q][1].data = wsSent'[1].msg.data
     /\ (IsCommand(lastAct'.h) /\ lastAct'.id \in ports /\ ws # 0
         /\ readyState[ws] = "OPEN" /\ vars' # vars)
          => wsSent' # <<>>]_vars

\* C17's case: a command of an attached port has just been sent upstream, on
\* the open socket, and the other attached port was told.
C17_Witness ==
  /\ IsCommand(lastAct.h)
  /\ Cardinality(ports) >= 2
  /\ Len(wsSent) = 1
  /\ readyState[wsSent[1].socket] = "OPEN"

\* The other case: a command has just been dropped, the socket held in ws
\* being still connecting.
C17_WitnessDropped ==
  /\ IsCommand(lastAct.h)
  /\ lastAct.id \in ports
  /\ wsSent = <<>>
  /\ ws # 0 /\ readyState[ws] = "CONNECTING"

\* C18: an attach that does not call connect() posts to the new port the
\* cached snapshot, if there is one, and then one status event, 'connected' if
\* the socket held in ws is open and 'disconnected' if it is not; and nothing
\* else, and nothing to the other ports.
C18_AttachStatus ==
  [][(nextPortId' = nextPortId + 1 /\ nSockets' = nSockets) =>
       LET status == Msg(IF ws # 0 /\ readyState[ws] = "OPEN"
                           THEN "connected" ELSE "disconnected", <<>>)
       IN /\ sent'[nextPortId] = IF lastInitialData # <<>>
                                   THEN <<lastInitialData, status>>
                                   ELSE <<status>>
          /\ \A q \in PortIds \ {nextPortId} : sent'[q] = <<>>]_vars

\* C18's case: a port has just attached while the socket was not open (closed,
\* waiting for the reconnect timeout): it was posted the cached snapshot and
\* then 'disconnected'.
C18_Witness ==
  /\ lastAct.h = "onconnect"
  /\ ~lastAct.connect
  /\ Len(sent[lastAct.id]) = 2
  /\ sent[lastAct.id][1].type = "initial"
  /\ sent[lastAct.id][2].type = "disconnected"
  /\ reconnectArmed # {}

\* C19: the run of ws.onmessage for a message it cannot process posts nothing
\* and leaves pendingUpdates, batchTimer and the flush timeout, lastInitialData,
\* ports, ws, the sockets and the reconnect timeouts as they were; and the
\* rows that are pending with a flush scheduled after such a run are flushed.
C19_MalformedDropped ==
  /\ [][lastAct'.h \in Malformed =>
          /\ UNCHANGED <<pendingUpdates, batchTimer, batchArmed, lastInitialData,
                         ports, ws, readyState, reconnectTimeout, reconnectArmed,
                         heartbeatInterval>>
          /\ broadcasts' = <<>>
          /\ sent' = NoSent]_vars
  /\ (lastAct.h \in Malformed /\ pendingUpdates # <<>> /\ batchArmed)
       ~> (lastAct.flush /\ pendingUpdates = <<>>)

\* C19's case: a malformed message has just been handled in the middle of a
\* coalescing window: the rows are still pending and the flush timeout armed.
C19_Witness ==
  /\ lastAct.h \in Malformed
  /\ ports # {}
  /\ pendingUpdates # <<>>
  /\ batchArmed

\* C20: between callbacks, whenever the pending map of the render batcher is
\* non-empty, frameScheduled is true, and frameScheduled is true only with a
\* frame callback waiting to run; after the callback has run, the pending map
\* is empty (its rows applied to the grid) or another frame is scheduled (the
\* grid was not there); and a non-empty pending map is drained.
C20_FrameDrains ==
  /\ [](pendingUpdatesRef # <<>> => frameScheduledRef)
  /\ [](frameScheduledRef = frameArmed)
  /\ [](lastFrame = "nogrid" => pendingUpdatesRef # <<>> /\ frameArmed)
  /\ [](lastFrame = "applied" => pendingUpdatesRef = <<>> /\ ~frameScheduledRef)
  /\ (pendingUpdatesRef # <<>>) ~> (pendingUpdatesRef = <<>>)

\* C20's case: the callback has just run with rows pending and no grid: the
\* rows are still pending and another frame is scheduled.
C20_Witness ==
  /\ lastFrame = "nogrid"
  /\ pendingUpdatesRef # <<>>
  /\ ~gridRef
  /\ frameArmed

\* C21: the pong of an attached port p sets its lastPong to now (age 0) and
\* leaves ports and the lastPong of every other port alone; and a port whose
\* lastPong is no older than one heartbeat interval (as it is, at every
\* interval callback, for a port that answers each ping before the next one)
\* leaves ports only by its own 'disconnect' message.
C21_PongKeepsAlive ==
  [][/\ (lastAct'.h = "pong" /\ lastAct'.id \in ports) =>
          /\ pongAge'[lastAct'.id] = 0
          /\ \A q \in PortIds \ {lastAct'.id} : pongAge'[q] = pongAge[q]
          /\ ports' = ports
     /\ \A p \in ports :
          (pongAge[p] * Grain <= HEARTBEAT_INTERVAL /\ p \notin ports') =>
             (lastAct'.h = "disconnect" /\ lastAct'.id = p)]_vars

\* C21's case: the interval callback has just evicted a silent port and kept
\* a port that answered the previous ping.
C21_Witness ==
  /\ lastAct.h = "heartbeat"
  /\ \E p \in ports \cap ponged : pongAge[p] = 0
  /\ \E q \in PortIds \ ports : evictedAge[q] # -1

\* C22: at most one reconnect timeout is armed, and an armed one is the one
\* held in reconnectTimeout.
C22_OneReconnectTimer == reconnectArmed \subseteq {reconnectTimeout}

\* C23: batchTimer is non-null exactly when the flush timeout is armed.
C23_BatchTimerExact == batchTimer = batchArmed

\* C24: a port is posted 'disconnected' by the close event of a socket only if
\* that socket is the one held in ws.
C24_StatusOfCurrentSocket ==
  [][\A s \in SocketIds :
       (/\ readyState[s] # "CLOSED" /\ readyState'[s] = "CLOSED"
        /\ \E p \in PortIds : sent'[p] # <<>> /\ Head(sent'[p]).type = "disconnected")
         => s = ws]_vars

\* C25: a tab that runs the App and stays open is never removed from ports.
C25_LiveTabStays == ports = Handed

NoteOf(h) == IF h = "setFrequency" THEN "frequencyChanged" ELSE "batchSizeChanged"

\* C26: the run of a setFrequency / setBatchSize message of an attached port
\* posts exactly one notification of the matching type to every other
\* attached port and nothing to the sender (nor to a port not attached),
\* whatever the state of the socket.
C26_NotifyOthers ==
  [][(IsCommand(lastAct'.h) /\ lastAct'.id \in ports) =>
       /\ sent'[lastAct'.id] = <<>>
       /\ \A q \in PortIds \ ports : sent'[q] = <<>>
       /\ \A q \in ports \ {lastAct'.id} :
            /\ Len(sent'[q]) = 1
            /\ sent'[q][1].type = NoteOf(lastAct'.h)
            /\ \A r \in ports \ {lastAct'.id} : sent'[r] = sent'[q]
       /\ ports' = ports]_vars

\* C26's case: a command has just been handled while the socket was not open:
\* nothing went upstream, the other attached port was notified.
C26_Witness ==
  /\ IsCommand(lastAct.h)
  /\ lastAct.id \in ports
  /\ wsSent = <<>>
  /\ \E q \in ports \ {lastAct.id} : Len(sent[q]) = 1

\* C27: the run of port.onmessage for a pong, disconnect, setFrequency or
\* setBatchSize message of a port that is not in ports changes nothing in the
\* worker: ports, the sockets, the timers, the batch and the cache stay as
\* they were, nothing is sent upstream and nothing is posted to any port.
C27_AbsentPortIgnored ==
  [][(/\ lastAct'.h \in {"pong", "disconnect", "setFrequency", "setBatchSize"}
      /\ lastAct'.id \notin ports) =>
        /\ UNCHANGED <<ws, readyState, ports, pongAge, nextPortId, reconnectTimeout,
                       reconnectArmed, heartbeatInterval, hbDue, lastInitialData,
                       pendingUpdates, batchTimer, batchArmed>>
        /\ wsSent' = <<>>
        /\ broadcasts' = <<>>
        /\ sent' = NoSent]_vars

\* C27's case: a command has just come from a port that was removed, while
\* another port is attached and the socket is open.
C27_Witness ==
  /\ IsCommand(lastAct.h)
  /\ lastAct.id \notin ports
  /\ ports # {}
  /\ ws # 0 /\ readyState[ws] = "OPEN"

=============================================================================
